---- MODULE Spec2Model ----
(***************************************************************************)
(* ScrewPlanner (src/src/screw_planner.cpp): one planner object, its       *)
(* members, and the control flow of plan() with the candidate generation   *)
(* loops and the trajectory extraction.                                    *)
(*                                                                         *)
(* Abstractions of the external collaborators:                             *)
(*  - a joint configuration (std::vector<double> of joint positions) is a  *)
(*    point 0..MaxConfig of a one-dimensional joint space;                 *)
(*  - angles (theta) are integers counting hundredths of the angle unit,   *)
(*    so the tolerance 0.01 of populateResponse is 1;                      *)
(*  - inverse kinematics, the OMPL planner, the validity checker and the   *)
(*    path length are external: their results are chosen nondeterminis-    *)
(*    tically.                                                             *)
(***************************************************************************)
EXTENDS Integers, Sequences, FiniteSets, TLC

VARIABLES
  kinematic_model,      \* class-level: the model the helper types read
  kinematic_model_,     \* member: the robot model loaded at construction
  joint_model_group_,   \* active joints of the group, fixed at construction
  pc,                   \* position inside plan(): "ready" between calls
  req,                  \* the request of the current / last call
  res,                  \* the caller's response object
  result,               \* result code of the last return, "NONE" while running
  state_space_,         \* member: compound state space or NoSpace
  ss_,                  \* member: SimpleSetup or NoSetup
  kinematic_state_,     \* member: "null", "default" positions, or "set"
  passed_start_config_, \* member: mode flag written by getStartTF
  goal_pose_,           \* member: goal pose, as the progress value it sits at
  start_configs,        \* local of plan(): start pool
  goal_configs,         \* local of plan(): goal pool
  num_start,            \* parameter of the running find function
  num_goal,             \* parameter of the running find function
  i,                    \* loop counter of the running find function
  ev,                   \* what the current / last call has done so far
  solution              \* the solved path under extraction (SpecExtract)

vars == <<kinematic_model, kinematic_model_, joint_model_group_, pc, req,
          res, result, state_space_, ss_,
          kinematic_state_, passed_start_config_, goal_pose_,
          start_configs, goal_configs, num_start, num_goal, i, ev,
          solution>>

----------------------------------------------------------------------------
\* Bounds of the model
MaxConfig == 2        \* joint configurations are 0..MaxConfig
MaxTheta == 2         \* commanded angles are 0..MaxTheta (hundredths)
MaxSolveStates == 2   \* longest solved path inside a plan() call
MaxStates == 3        \* longest solved path given to populateResponse alone
MaxPathLength == 1    \* path lengths reported by the planner are 0..MaxPathLength

\* Program constants
NumGoalGiven == 10    \* findGoalStates(req, 10, ...)
NumStart == 5         \* findStartGoalStates(req, 5, 10, ...)
NumGoal == 10

Configs == 0..MaxConfig
Thetas == 0..MaxTheta
PathLengths == 0..MaxPathLength

NoSpace == [null |-> TRUE]
NoSetup == [null |-> TRUE]
NoSolution == [null |-> TRUE]
NoIK == -1

----------------------------------------------------------------------------
\* Joint groups

Joint(type, bounded) == [type |-> type, position_bounded_ |-> bounded]

\* The groups a planner is constructed with in this model.
JointGroups ==
  { <<Joint("REVOLUTE", TRUE), Joint("PRISMATIC", TRUE),
      Joint("PLANAR", FALSE)>>,
    <<Joint("REVOLUTE", TRUE), Joint("FLOATING", FALSE)>>,
    <<Joint("REVOLUTE", FALSE)>>,
    <<Joint("PRISMATIC", TRUE), Joint("PRISMATIC", FALSE)>>,
    <<Joint("PLANAR", FALSE), Joint("REVOLUTE", FALSE)>> }

\* moveit::core::JointModel::getVariableCount per joint type
JointVariables(joint) ==
  CASE joint.type = "PLANAR" -> 3
    [] joint.type = "FLOATING" -> 7
    [] OTHER -> 1

RECURSIVE getVariableCount(_)
getVariableCount(group) ==
  IF group = <<>> THEN 0
  ELSE JointVariables(Head(group)) + getVariableCount(Tail(group))

\* getVariableNames(): one name per variable of the group
getVariableNames(group) == [k \in 1..getVariableCount(group) |-> k]

----------------------------------------------------------------------------
\* Requests and responses

\* start_joint_state, as its size() and the configuration it denotes: the
\* empty vector, every configuration of the group's size, and one vector
\* that is one entry too long.
StartJointStates(group) ==
  { [size |-> 0, q |-> 0] } \cup
  { [size |-> getVariableCount(group), q |-> c] : c \in Configs } \cup
  { [size |-> getVariableCount(group) + 1, q |-> 0] }

Requests(group) ==
  { [theta |-> t, start_joint_state |-> s] :
      t \in Thetas, s \in StartJointStates(group) }

\* x / y on doubles: 0/0 is NaN, x/0 is infinite, else the exact quotient
RECURSIVE GCD(_, _)
GCD(a, b) == IF b = 0 THEN a ELSE GCD(b, a % b)

Divide(x, y) ==
  IF y = 0
  THEN IF x = 0 THEN [nan |-> TRUE] ELSE [inf |-> TRUE]
  ELSE [num |-> x \div GCD(x, y), den |-> y \div GCD(x, y)]

Zero == [num |-> 0, den |-> 1]

Abs(x) == IF x < 0 THEN -x ELSE x

----------------------------------------------------------------------------
\* Construction

MaxRobots == 2
\* the robot descriptions a planner can be constructed from, each naming
\* the model RobotModelLoader loads for it
RobotDescriptions == 1..MaxRobots

\* ScrewSampler::kinematic_model, ScrewValidityChecker::kinematic_model and
\* ScrewValidSampler::kinematic_model after a constructor has run
HelperModels(model) ==
  [ScrewSampler |-> model, ScrewValidityChecker |-> model,
   ScrewValidSampler |-> model]

\* ScrewPlanner::ScrewPlanner for the planner of this model: its members and
\* the class-level models
Construct(robot_description_name) ==
  /\ kinematic_model_ = robot_description_name
  /\ kinematic_model = HelperModels(kinematic_model_)

----------------------------------------------------------------------------
\* State-space construction

RECURSIVE addJointDimensionsUnchecked(_, _)
\* The loop without the position_bounded_ test
addJointDimensionsUnchecked(joints, dim) ==
  IF joints = <<>> THEN dim
  ELSE LET jt == Head(joints).type
       IN IF jt = "PLANAR"
          THEN addJointDimensionsUnchecked(Tail(joints), dim + 3)
          ELSE IF jt = "REVOLUTE" \/ jt = "PRISMATIC"
               THEN addJointDimensionsUnchecked(Tail(joints), dim + 1)
               ELSE addJointDimensionsUnchecked(Tail(joints), dim)

RECURSIVE addJointDimensions(_, _)
\* The loop over getActiveJointModels(): the joint-space dimension it ends
\* with, or -1 when it leaves setupStateSpace with false.
addJointDimensions(joints, dim) ==
  IF joints = <<>> THEN dim
  ELSE LET joint == Head(joints)
           jt == joint.type
       IN IF jt = "PLANAR"
          THEN addJointDimensions(Tail(joints), dim + 3)
          ELSE IF jt = "REVOLUTE" \/ jt = "PRISMATIC"
               THEN IF joint.position_bounded_
                    THEN addJointDimensions(Tail(joints), dim + 1)
                    ELSE -1
               ELSE addJointDimensions(Tail(joints), dim)

\* setupStateSpace: [ok, space]; state_space_ stays reset when it fails
setupStateSpace(r, group) ==
  LET dim == addJointDimensions(group, 0)
  IN IF dim < 0
     THEN [ok |-> FALSE, space |-> NoSpace]
     ELSE [ok |-> TRUE,
           space |-> [screw_low |-> 0, screw_high |-> r.theta,
                      joint_dims |-> dim, sampler |-> FALSE,
                      locked |-> FALSE, params |-> {}]]

\* getStartTF that writes passed_start_config_ on its first branch only
getStartTFStale(r, group) ==
  [passed_start_config_ |->
     IF r.start_joint_state.size = getVariableCount(group)
     THEN TRUE ELSE passed_start_config_,
   kinematic_state_ |->
     IF r.start_joint_state.size = getVariableCount(group)
     THEN "set" ELSE "default"]

\* getStartTF: a start joint configuration counts as given iff its size is
\* the group's variable count
getStartTF(r, group) ==
  [passed_start_config_ |->
     (r.start_joint_state.size = getVariableCount(group)),
   kinematic_state_ |->
     IF r.start_joint_state.size = getVariableCount(group)
     THEN "set" ELSE "default"]

\* setSpaceParameters: always true; the goal pose sits at progress req.theta
setSpaceParameters(r, space) ==
  [ok |-> TRUE,
   goal_pose_ |-> r.theta,
   space |-> [space EXCEPT !.params =
                {"screw_param", "pose_param", "ee_frame_name", "move_group"}]]

\* setSimpleSetup reporting a failure
setSimpleSetupFailing(space) ==
  [ok |-> FALSE,
   ss |-> [space |-> space, checker |-> TRUE, valid_sampler |-> TRUE,
           planner |-> "PRM"]]

\* setSimpleSetup: always true
setSimpleSetup(space) ==
  [ok |-> TRUE,
   ss |-> [space |-> space, checker |-> TRUE, valid_sampler |-> TRUE,
           planner |-> "PRM"]]

----------------------------------------------------------------------------
\* Candidate generation

\* Joint-space distance below which two configurations are duplicates
DuplicateDistance == 2

\* checkDuplicateState: TRUE iff the new state is no duplicate of a listed one
checkDuplicateState(state_list, joint_values) ==
  \A k \in 1..Len(state_list) :
     ~(Abs(state_list[k] - joint_values) < DuplicateDistance)

\* Outcomes of setFromIK: NoIK, or the configuration found
IKOutcomes == {NoIK} \cup Configs

\* increaseStateList that keeps every IK solution
increaseStateListUnchecked(ik, state_list) ==
  IF ik = NoIK THEN state_list ELSE Append(state_list, ik)

\* increaseStateList with the outcome `ik` of its setFromIK call
increaseStateList(ik, state_list) ==
  IF ik = NoIK
  THEN state_list
  ELSE IF checkDuplicateState(state_list, ik)
       THEN Append(state_list, ik)
       ELSE state_list

\* vectorToState: the compound state (theta, joints)
vectorToState(theta, joints) == [theta |-> theta, q |-> joints]

\* Nothing done yet: random re-seeds, IK attempts, sampler and validity
\* checker installations, solve / simplifySolution / populateResponse calls,
\* and the status solve() returned
EvZero == [reseed |-> 0, ik |-> 0, sampler |-> 0, checker |-> 0,
           solve |-> 0, simplify |-> 0, populate |-> 0, solved |-> "NONE"]

----------------------------------------------------------------------------
\* Trajectory extraction

\* States a solved path over the compound space can hold for a request:
\* progress within the screw bounds, a joint configuration, and the verdict
\* the validity checker gives when the state is re-checked.
PathStates(theta) ==
  [theta : 0..theta, q : Configs, valid : BOOLEAN]

\* Solved paths of at most n states, after simplification and
\* interpolation, with the length the planner reports for them; a path
\* begins at the start state `start` the planner was given.
SolvedPaths(theta, n, start) ==
  { [states |-> st, length |-> len] :
      st \in {<<>>} \cup
             UNION { { <<[theta |-> start.theta, q |-> start.q,
                          valid |-> v]>> \o rest :
                         v \in BOOLEAN,
                         rest \in [1..(k - 1) -> PathStates(theta)] } :
                     k \in 1..n },
      len \in PathLengths }

RECURSIVE walkStatesAppendFirst(_, _, _, _)
\* The loop with the waypoint appended before the validity test
walkStatesAppendFirst(sol, k, r, rs) ==
  IF k > Len(sol.states)
  THEN LET screw_state == sol.states[Len(sol.states)].theta
           err == Abs(r.theta - screw_state)
       IN [rs EXCEPT !.trajectory_is_valid = ~(err > 1),
                     !.percentage_complete = Divide(screw_state, r.theta),
                     !.path_length = sol.length]
  ELSE IF ~sol.states[k].valid
       THEN [rs EXCEPT !.points = Append(@, sol.states[k].q),
                       !.trajectory_is_valid = FALSE,
                       !.percentage_complete =
                          Divide(sol.states[k].theta, r.theta)]
       ELSE walkStatesAppendFirst(sol, k + 1, r,
                       [rs EXCEPT !.points = Append(@, sol.states[k].q)])

RECURSIVE walkStatesWritesLength(_, _, _, _)
\* The loop writing the path length also when it stops at an invalid state
walkStatesWritesLength(sol, k, r, rs) ==
  IF k > Len(sol.states)
  THEN LET screw_state == sol.states[Len(sol.states)].theta
           err == Abs(r.theta - screw_state)
       IN [rs EXCEPT !.trajectory_is_valid = ~(err > 1),
                     !.percentage_complete = Divide(screw_state, r.theta),
                     !.path_length = sol.length]
  ELSE IF ~sol.states[k].valid
       THEN [rs EXCEPT !.trajectory_is_valid = FALSE,
                       !.percentage_complete =
                          Divide(sol.states[k].theta, r.theta),
                       !.path_length = sol.length]
       ELSE walkStatesWritesLength(sol, k + 1, r,
                       [rs EXCEPT !.points = Append(@, sol.states[k].q)])

RECURSIVE walkStates(_, _, _, _)
\* The loop over solution.getStates() from state k on, and the final check
walkStates(sol, k, r, rs) ==
  IF k > Len(sol.states)
  THEN LET screw_state == sol.states[Len(sol.states)].theta
           err == Abs(r.theta - screw_state)
       IN [rs EXCEPT !.trajectory_is_valid = ~(err > 1),
                     !.percentage_complete = Divide(screw_state, r.theta),
                     !.path_length = sol.length]
  ELSE IF ~sol.states[k].valid
       THEN [rs EXCEPT !.trajectory_is_valid = FALSE,
                       !.percentage_complete =
                          Divide(sol.states[k].theta, r.theta)]
       ELSE walkStates(sol, k + 1, r,
                       [rs EXCEPT !.points = Append(@, sol.states[k].q)])

\* The response as plan() resets it, path_length left as it was
ResetResponse(length) ==
  [joint_names |-> <<>>, points |-> <<>>, percentage_complete |-> Zero,
   trajectory_is_valid |-> FALSE, path_length |-> length]

\* populateResponse that marks every trajectory it walked to the end as valid
populateResponseNoFinalCheck(sol, r, rs, group) ==
  IF Len(sol.states) < 2
  THEN rs
  ELSE LET out == walkStates(sol, 1, r,
                     [rs EXCEPT !.joint_names = getVariableNames(group)])
       IN IF \A k \in 1..Len(sol.states) : sol.states[k].valid
          THEN [out EXCEPT !.trajectory_is_valid = TRUE]
          ELSE out

\* populateResponse(solution, req, res) for a planner of the given group
populateResponse(sol, r, rs, group) ==
  IF Len(sol.states) < 2
  THEN rs
  ELSE walkStates(sol, 1, r,
                  [rs EXCEPT !.joint_names = getVariableNames(group)])

----------------------------------------------------------------------------
\* plan()

locals == <<start_configs, goal_configs, num_start, num_goal, i>>

\* return from plan(): the locals go out of scope
Return(code) ==
  /\ result' = code
  /\ pc' = "ready"
  /\ start_configs' = <<>>
  /\ goal_configs' = <<>>
  /\ num_start' = 0
  /\ num_goal' = 0
  /\ i' = 0

\* findGoalStates(r, n_goal, start_configs, goal_configs) from its entry to
\* the first test of its loop, or to the return of plan() when it returns
\* false before the loop
findGoalStatesEnter(r, n_goal) ==
  IF r.start_joint_state.size # getVariableCount(joint_model_group_)
  THEN Return("NO_IK_SOLUTION")
  ELSE /\ start_configs' = <<r.start_joint_state.q>>
       /\ goal_configs' = <<>>
       /\ num_start' = 0
       /\ num_goal' = n_goal
       /\ i' = 0
       /\ result' = "NONE"
       /\ pc' = "findGoalStates"

\* findStartGoalStates(r, n_start, n_goal, start_configs, goal_configs) from
\* its entry to the first test of its loop, or to the return of plan() when
\* it returns false before the loop; plan() passes it empty pools
findStartGoalStatesEnter(r, n_start, n_goal) ==
  IF n_goal < 1 \/ n_start < 1
  THEN Return("NO_IK_SOLUTION")
  ELSE /\ start_configs' = <<>>
       /\ goal_configs' = <<>>
       /\ num_start' = n_start
       /\ num_goal' = n_goal
       /\ i' = 0
       /\ result' = "NONE"
       /\ pc' = "findStartGoalStates"

\* plan(req, res) from its entry to the first loop test of the find function
Plan(r) ==
  /\ pc = "ready"
  /\ req' = r
  /\ res' = ResetResponse(res.path_length)
  /\ UNCHANGED <<kinematic_model, kinematic_model_, joint_model_group_,
                 solution>>
  /\ LET setup == setupStateSpace(r, joint_model_group_)
         tf == getStartTF(r, joint_model_group_)
         params == setSpaceParameters(r, setup.space)
         space == [params.space EXCEPT !.sampler = TRUE, !.locked = TRUE]
         simple == setSimpleSetup(space)
     IN IF ~setup.ok
        THEN /\ state_space_' = setup.space
             /\ kinematic_state_' = "default"
             /\ ev' = EvZero
             /\ UNCHANGED <<ss_, passed_start_config_, goal_pose_>>
             /\ Return("INITIALIZATION_FAIL")
        ELSE IF ~params.ok
        THEN /\ state_space_' = params.space
             /\ kinematic_state_' = tf.kinematic_state_
             /\ passed_start_config_' = tf.passed_start_config_
             /\ goal_pose_' = params.goal_pose_
             /\ ev' = EvZero
             /\ UNCHANGED ss_
             /\ Return("INITIALIZATION_FAIL")
        ELSE IF ~simple.ok
        THEN /\ state_space_' = space
             /\ kinematic_state_' = tf.kinematic_state_
             /\ passed_start_config_' = tf.passed_start_config_
             /\ goal_pose_' = params.goal_pose_
             /\ ev' = [EvZero EXCEPT !.sampler = 1]
             /\ ss_' = simple.ss
             /\ Return("INITIALIZATION_FAIL")
        ELSE /\ state_space_' = space
             /\ passed_start_config_' = tf.passed_start_config_
             /\ goal_pose_' = params.goal_pose_
             /\ ev' = [EvZero EXCEPT !.sampler = 1, !.checker = 1]
             /\ ss_' = simple.ss
             /\ kinematic_state_' = tf.kinematic_state_
             /\ IF tf.passed_start_config_
                THEN findGoalStatesEnter(r, NumGoalGiven)
                ELSE findStartGoalStatesEnter(r, NumStart, NumGoal)

members == <<kinematic_model_, joint_model_group_, state_space_, ss_,
             passed_start_config_, goal_pose_>>

\* An iteration of the loop of findGoalStates that is not stopped by the
\* goal quota
findGoalStatesStepUnlimited ==
  /\ pc = "findGoalStates"
  /\ i < 2 * num_goal
  /\ \E ik \in IKOutcomes :
        goal_configs' = increaseStateList(ik, goal_configs)
  /\ kinematic_state_' = "set"
  /\ i' = i + 1
  /\ ev' = [ev EXCEPT !.ik = @ + 1, !.reseed = @ + 1]
  /\ UNCHANGED <<kinematic_model, members, pc, req, res, result,
                 start_configs, num_start, num_goal, solution>>

\* An iteration of the loop of findStartGoalStates that tries both poses
\* whatever the pools hold
findStartGoalStatesStepBoth ==
  /\ pc = "findStartGoalStates"
  /\ (Len(start_configs) < num_start \/ Len(goal_configs) < num_goal)
  /\ i < 2 * (num_goal + num_start)
  /\ i' = i + 1
  /\ \E ik_start \in IKOutcomes, ik_goal \in IKOutcomes :
        /\ start_configs' = increaseStateList(ik_start, start_configs)
        /\ goal_configs' = increaseStateList(ik_goal, goal_configs)
        /\ kinematic_state_' = "set"
        /\ ev' = [ev EXCEPT !.reseed = @ + 1, !.ik = @ + 2]
  /\ UNCHANGED <<kinematic_model, members, pc, req, res, result, num_start,
                 num_goal, solution>>

\* One iteration of the loop of findGoalStates
findGoalStatesStep ==
  /\ pc = "findGoalStates"
  /\ Len(goal_configs) < num_goal /\ i < 2 * num_goal
  /\ \E ik \in IKOutcomes :
        goal_configs' = increaseStateList(ik, goal_configs)
  /\ kinematic_state_' = "set"
  /\ i' = i + 1
  /\ ev' = [ev EXCEPT !.ik = @ + 1, !.reseed = @ + 1]
  /\ UNCHANGED <<kinematic_model, members, pc, req, res, result,
                 start_configs, num_start, num_goal, solution>>

\* One iteration of the loop of findStartGoalStates
findStartGoalStatesStep ==
  /\ pc = "findStartGoalStates"
  /\ (Len(start_configs) < num_start \/ Len(goal_configs) < num_goal)
  /\ i < 2 * (num_goal + num_start)
  /\ i' = i + 1
  /\ \E ik_start \in IKOutcomes, ik_goal \in IKOutcomes :
        LET try_start == Len(start_configs) < num_start
            try_goal == Len(goal_configs) < num_goal
        IN /\ (~try_start => ik_start = NoIK)
           /\ (~try_goal => ik_goal = NoIK)
           /\ start_configs' = IF try_start
                               THEN increaseStateList(ik_start, start_configs)
                               ELSE start_configs
           /\ goal_configs' = IF try_goal
                              THEN increaseStateList(ik_goal, goal_configs)
                              ELSE goal_configs
           /\ kinematic_state_' = "set"
           /\ ev' = [ev EXCEPT !.reseed = @ + 1,
                               !.ik = @ + (IF try_start THEN 1 ELSE 0)
                                        + (IF try_goal THEN 1 ELSE 0)]
  /\ UNCHANGED <<kinematic_model, members, pc, req, res, result, num_start,
                 num_goal, solution>>

\* plan() after a find function returned `found`: NO_IK_SOLUTION, or on
\* to the planner
afterFind(found) ==
  IF ~found
  THEN Return("NO_IK_SOLUTION")
  ELSE /\ pc' = "found"
       /\ UNCHANGED <<result, locals>>

\* plan() going on to the planner whatever findGoalStates returned
findGoalStatesReturnIgnored ==
  /\ pc = "findGoalStates"
  /\ ~(Len(goal_configs) < num_goal /\ i < 2 * num_goal)
  /\ afterFind(TRUE)
  /\ UNCHANGED <<kinematic_model, members, kinematic_state_, req, res, ev,
                 solution>>

\* findGoalStates leaves its loop and returns
findGoalStatesReturn ==
  /\ pc = "findGoalStates"
  /\ ~(Len(goal_configs) < num_goal /\ i < 2 * num_goal)
  /\ afterFind(Len(goal_configs) > 0)
  /\ UNCHANGED <<kinematic_model, members, kinematic_state_, req, res, ev,
                 solution>>

\* findStartGoalStates returning true when either pool has an entry
findStartGoalStatesReturnEither ==
  /\ pc = "findStartGoalStates"
  /\ ~((Len(start_configs) < num_start \/ Len(goal_configs) < num_goal)
       /\ i < 2 * (num_goal + num_start))
  /\ afterFind(Len(start_configs) > 0 \/ Len(goal_configs) > 0)
  /\ UNCHANGED <<kinematic_model, members, kinematic_state_, req, res, ev,
                 solution>>

\* findStartGoalStates leaves its loop and returns
findStartGoalStatesReturn ==
  /\ pc = "findStartGoalStates"
  /\ ~((Len(start_configs) < num_start \/ Len(goal_configs) < num_goal)
       /\ i < 2 * (num_goal + num_start))
  /\ afterFind(Len(start_configs) > 0 /\ Len(goal_configs) > 0)
  /\ UNCHANGED <<kinematic_model, members, kinematic_state_, req, res, ev,
                 solution>>

\* The start states plan() registers: theta = 0 with each start configuration
startStates ==
  [k \in 1..Len(start_configs) |-> vectorToState(0, start_configs[k])]

\* The states of the goal object: theta = req.theta with each goal
\* configuration
goalStates ==
  [k \in 1..Len(goal_configs) |-> vectorToState(req.theta, goal_configs[k])]

\* Every response populateResponse can leave, per commanded angle, group,
\* incoming response and start state of the solved path
populateResponseResults ==
  [theta \in Thetas, group \in JointGroups,
   rs \in { ResetResponse(len) : len \in PathLengths }, q \in Configs |->
     { populateResponse(sol, [theta |-> theta], rs, group) :
         sol \in SolvedPaths(theta, MaxSolveStates, vectorToState(0, q)) }]

\* plan() extracting a trajectory whatever solve() returned
SolveAlwaysExtract ==
  /\ pc = "found"
  /\ \E solved \in BOOLEAN :
        /\ \E start \in { startStates[k] : k \in DOMAIN startStates } :
              res' \in populateResponseResults[req.theta, joint_model_group_,
                                               res, start.q]
        /\ ev' = [ev EXCEPT !.solve = @ + 1, !.simplify = @ + 1,
                            !.populate = @ + 1,
                            !.solved = IF solved THEN "SOLVED" ELSE "FAILED"]
        /\ Return(IF solved THEN "SUCCESS" ELSE "PLANNING_FAIL")
  /\ UNCHANGED <<kinematic_model, members, kinematic_state_, req, solution>>

\* plan() from the registration of the start states and the goal on:
\* ss_->solve(5.0), and on success simplifySolution and populateResponse on
\* a path that begins at one of the start states
Solve ==
  /\ pc = "found"
  /\ \E solved \in BOOLEAN :
        IF solved
        THEN /\ \E start \in { startStates[k] : k \in DOMAIN startStates } :
                   res' \in populateResponseResults[req.theta,
                               joint_model_group_, res, start.q]
             /\ ev' = [ev EXCEPT !.solve = @ + 1, !.simplify = @ + 1,
                                 !.populate = @ + 1, !.solved = "SOLVED"]
             /\ Return("SUCCESS")
        ELSE /\ res' = res
             /\ ev' = [ev EXCEPT !.solve = @ + 1, !.solved = "FAILED"]
             /\ Return("PLANNING_FAIL")
  /\ UNCHANGED <<kinematic_model, members, kinematic_state_, req, solution>>

----------------------------------------------------------------------------
Init ==
  /\ Construct(1)
  /\ joint_model_group_ \in JointGroups
  /\ pc = "ready"
  /\ req = [theta |-> 0, start_joint_state |-> [size |-> 0, q |-> 0]]
  /\ res = ResetResponse(0)
  /\ result = "NONE"
  /\ state_space_ = NoSpace
  /\ ss_ = NoSetup
  /\ kinematic_state_ = "null"
  /\ passed_start_config_ \in BOOLEAN
  /\ goal_pose_ = 0
  /\ start_configs = <<>>
  /\ goal_configs = <<>>
  /\ num_start = 0
  /\ num_goal = 0
  /\ i = 0
  /\ ev = EvZero
  /\ solution = NoSolution

Next ==
  \/ \E r \in Requests(joint_model_group_) : Plan(r)
  \/ findGoalStatesStep
  \/ findStartGoalStatesStep
  \/ findGoalStatesReturn
  \/ findStartGoalStatesReturn
  \/ Solve

Spec == Init /\ [][Next]_vars

----------------------------------------------------------------------------
\* populateResponse on its own: every solved path of at most MaxStates
\* states, for every commanded angle, into a freshly reset response

InitExtract ==
  /\ Construct(1)
  /\ joint_model_group_ = <<Joint("REVOLUTE", TRUE), Joint("PRISMATIC", TRUE),
                            Joint("PLANAR", FALSE)>>
  /\ pc = "extract"
  /\ req \in { r \in Requests(joint_model_group_) :
                 r.start_joint_state.size = 0 }
  /\ res = ResetResponse(0)
  /\ \E k \in 0..MaxStates :
        \E st \in [1..k -> PathStates(req.theta)], len \in PathLengths :
           \* the members of SolvedPaths(req.theta, MaxStates, start) for
           \* every start state (theta = 0)
           /\ st # <<>> => st[1].theta = 0
           /\ solution = [states |-> st, length |-> len]
  /\ result = "NONE"
  /\ state_space_ = NoSpace
  /\ ss_ = NoSetup
  /\ kinematic_state_ = "null"
  /\ passed_start_config_ = FALSE
  /\ goal_pose_ = req.theta
  /\ start_configs = <<>>
  /\ goal_configs = <<>>
  /\ num_start = 0
  /\ num_goal = 0
  /\ i = 0
  /\ ev = EvZero

Extract ==
  /\ pc = "extract"
  /\ res' = populateResponse(solution, req, res, joint_model_group_)
  /\ ev' = [ev EXCEPT !.populate = @ + 1]
  /\ pc' = "extracted"
  /\ UNCHANGED <<kinematic_model, members, kinematic_state_, req, result,
                 locals, solution>>

NextExtract == Extract

SpecExtract == InitExtract /\ [][NextExtract]_vars

----------------------------------------------------------------------------
\* The find functions on their own: plan() from line 53 on, after a setup
\* that succeeded, calling findGoalStates / findStartGoalStates with every
\* quota in Quotas, up to the return of the find function

MaxQuota == 2
Quotas == 0..MaxQuota

InitFind ==
  /\ Construct(1)
  /\ joint_model_group_ \in
       { g \in JointGroups : setupStateSpace([theta |-> 0], g).ok }
  /\ pc = "findStates"
  /\ req \in Requests(joint_model_group_)
  /\ res = ResetResponse(0)
  /\ result = "NONE"
  /\ LET setup == setupStateSpace(req, joint_model_group_)
         tf == getStartTF(req, joint_model_group_)
         params == setSpaceParameters(req, setup.space)
         space == [params.space EXCEPT !.sampler = TRUE, !.locked = TRUE]
         simple == setSimpleSetup(space)
     IN /\ state_space_ = space
        /\ ss_ = simple.ss
        /\ kinematic_state_ = tf.kinematic_state_
        /\ passed_start_config_ = tf.passed_start_config_
        /\ goal_pose_ = params.goal_pose_
  /\ start_configs = <<>>
  /\ goal_configs = <<>>
  /\ num_start = 0
  /\ num_goal = 0
  /\ i = 0
  /\ ev = [EvZero EXCEPT !.sampler = 1, !.checker = 1]
  /\ solution = NoSolution

\* plan() lines 53-63, with the quotas n_start and n_goal in place of 5, 10
FindStates(n_start, n_goal) ==
  /\ pc = "findStates"
  /\ IF passed_start_config_
     THEN findGoalStatesEnter(req, n_goal)
     ELSE findStartGoalStatesEnter(req, n_start, n_goal)
  /\ UNCHANGED <<kinematic_model, members, kinematic_state_, req, res, ev,
                 solution>>

NextFind ==
  \/ \E n_start \in Quotas, n_goal \in Quotas : FindStates(n_start, n_goal)
  \/ findGoalStatesStep
  \/ findStartGoalStatesStep
  \/ findGoalStatesReturn
  \/ findStartGoalStatesReturn

\* plan() runs in one thread and every setFromIK call returns, so a loop
\* that can go on does go on
SpecFind == InitFind /\ [][NextFind]_vars /\ WF_vars(NextFind)

----------------------------------------------------------------------------
\* Several planners in one process: this planner's plan() calls, and
\* between them the construction of further planners

\* ScrewPlanner::ScrewPlanner for another planner: the members it sets are
\* its own, the class-level models are everybody's
ScrewPlanner(robot_description_name) ==
  /\ pc = "ready"
  /\ kinematic_model' = HelperModels(robot_description_name)
  /\ UNCHANGED <<members, kinematic_state_, pc, req, res, result, locals, ev,
                 solution>>

\* the requests of this scenario: every start joint state, one angle
SharedRequests(group) == { r \in Requests(group) : r.theta = 1 }

InitShared ==
  /\ Init
  /\ joint_model_group_ = <<Joint("REVOLUTE", TRUE), Joint("PRISMATIC", TRUE),
                            Joint("PLANAR", FALSE)>>

NextShared ==
  \/ \E d \in RobotDescriptions : ScrewPlanner(d)
  \/ \E r \in SharedRequests(joint_model_group_) : Plan(r)
  \/ findGoalStatesStep
  \/ findStartGoalStatesStep
  \/ findGoalStatesReturn
  \/ findStartGoalStatesReturn
  \/ Solve

SpecShared == InitShared /\ [][NextShared]_vars

----------------------------------------------------------------------------
\* Properties

Returned == pc = "ready" /\ result # "NONE"

IsReset(rs) ==
  /\ rs.joint_names = <<>>
  /\ rs.points = <<>>
  /\ rs.trajectory_is_valid = FALSE
  /\ rs.percentage_complete = Zero

HasUnboundedJoint(group) ==
  \E k \in 1..Len(group) :
     /\ group[k].type \in {"REVOLUTE", "PRISMATIC"}
     /\ ~group[k].position_bounded_

HasOtherJoint(group) ==
  \E k \in 1..Len(group) :
     group[k].type \notin {"REVOLUTE", "PRISMATIC", "PLANAR"}

RECURSIVE ExpectedDimensions(_)
ExpectedDimensions(group) ==
  IF group = <<>> THEN 0
  ELSE (IF Head(group).type = "PLANAR" THEN 3 ELSE 1)
       + ExpectedDimensions(Tail(group))

NoDuplicates(pool) ==
  \A j \in 1..Len(pool) : \A k \in 1..Len(pool) :
     j < k => Abs(pool[j] - pool[k]) >= DuplicateDistance

\* C1: when solve() reports no solution, plan() returns PLANNING_FAIL, the
\* response is in its reset state, and neither simplifySolution nor
\* populateResponse was called.
C1_PlanningFailLeavesResponseReset ==
  (pc = "ready" /\ ev.solved = "FAILED") =>
     /\ result = "PLANNING_FAIL"
     /\ IsReset(res)
     /\ ev.simplify = 0
     /\ ev.populate = 0

\* a call returned after the planner failed, on a response object that
\* carried the path length of an earlier successful call
C1_Witness ==
  /\ pc = "ready"
  /\ ev.solved = "FAILED"
  /\ result = "PLANNING_FAIL"
  /\ res.path_length = 1

\* C2 (as claimed): a call with a non-empty start joint configuration whose
\* size differs from the group's variable count returns NO_IK_SOLUTION
\* (once the state space was built), whatever IK and the planner do.
C2_MismatchedStartReturnsNoIK ==
  (/\ Returned
   /\ result # "INITIALIZATION_FAIL"
   /\ req.start_joint_state.size # 0
   /\ req.start_joint_state.size # getVariableCount(joint_model_group_))
  => result = "NO_IK_SOLUTION"

\* C3: no pool ever holds two configurations that are duplicates of each
\* other, in either find function and in what plan() hands to the planner.
C3_PoolsHoldNoDuplicates ==
  /\ NoDuplicates(start_configs)
  /\ NoDuplicates(goal_configs)

\* both pools hold two configurations when the planner is about to run
C3_Witness ==
  /\ pc = "found"
  /\ Len(start_configs) = 2
  /\ Len(goal_configs) = 2
  /\ ev.ik > 4

\* C4: with an unbounded revolute or prismatic joint in the group, every
\* call returns INITIALIZATION_FAIL at once: no random re-seed, no IK
\* attempt, no sampler or validity checker installed, no planner run.
C4_UnboundedJointFailsBeforeSampling ==
  HasUnboundedJoint(joint_model_group_) =>
     /\ pc = "ready"
     /\ result \in {"NONE", "INITIALIZATION_FAIL"}
     /\ ev = EvZero
     /\ kinematic_state_ \in {"null", "default"}
     /\ ss_ = NoSetup
     /\ state_space_ = NoSpace

\* a call on a group with an unbounded joint has returned
C4_Witness ==
  /\ HasUnboundedJoint(joint_model_group_)
  /\ Returned
  /\ result = "INITIALIZATION_FAIL"

\* C5 (as claimed): once a call is past setupStateSpace, the group has no
\* joint of another type than revolute, prismatic or planar and no unbounded
\* revolute / prismatic joint (else INITIALIZATION_FAIL was returned), and
\* the joint space has one dimension per revolute / prismatic joint and
\* three per planar joint.
C5_SetupFailsOnUnsupportedJoint ==
  (pc # "ready" \/ result # "NONE") =>
     IF HasOtherJoint(joint_model_group_)
        \/ HasUnboundedJoint(joint_model_group_)
     THEN Returned /\ result = "INITIALIZATION_FAIL"
     ELSE state_space_.joint_dims = ExpectedDimensions(joint_model_group_)

\* C6 (as claimed): SUCCESS comes with the joint names and at least one
\* waypoint, a partial result being marked by an invalid trajectory with a
\* completion below 1.
C6_SuccessCarriesTrajectory ==
  (Returned /\ result = "SUCCESS") =>
     /\ res.joint_names # <<>>
     /\ Len(res.points) >= 1
     /\ \/ res.trajectory_is_valid
        \/ /\ "num" \in DOMAIN res.percentage_complete
           /\ res.percentage_complete.num < res.percentage_complete.den

FirstInvalid(states) ==
  CHOOSE k \in 1..Len(states) :
     /\ ~states[k].valid
     /\ \A j \in 1..(k - 1) : states[j].valid

\* C7: when populateResponse meets an invalid state, the response is
\* invalid, its completion is the invalid state's theta over theta_max (the
\* quotient 0/0 when theta_max is 0), and its waypoints are exactly the
\* states before that one, in order.
C7_StopsAtFirstInvalidState ==
  (/\ pc = "extracted"
   /\ Len(solution.states) >= 2
   /\ \E k \in 1..Len(solution.states) : ~solution.states[k].valid)
  => LET k == FirstInvalid(solution.states)
     IN /\ res.trajectory_is_valid = FALSE
        /\ res.points = [j \in 1..(k - 1) |-> solution.states[j].q]
        /\ IF req.theta > 0
           THEN /\ "num" \in DOMAIN res.percentage_complete
                /\ res.percentage_complete.num * req.theta
                     = solution.states[k].theta * res.percentage_complete.den
           ELSE "nan" \in DOMAIN res.percentage_complete
        /\ res.joint_names = getVariableNames(joint_model_group_)

\* the third state of a path was the first invalid one; two different
\* waypoints were emitted and the completion is one half
C7_Witness ==
  /\ pc = "extracted"
  /\ Len(solution.states) = 3
  /\ solution.states[1].valid /\ solution.states[2].valid
  /\ ~solution.states[3].valid
  /\ res.points = <<0, 2>>
  /\ res.percentage_complete = [num |-> 1, den |-> 2]

\* C8 (as claimed): along the emitted waypoints the progress theta of the
\* path states they come from never decreases.
C8_WaypointProgressMonotone ==
  pc = "extracted" =>
     \A j \in 1..(Len(res.points) - 1) :
        solution.states[j].theta <= solution.states[j + 1].theta

\* C9 (as claimed): after any call the completion is a number in [0, 1].
C9_CompletionInUnitRange ==
  Returned =>
     /\ "num" \in DOMAIN res.percentage_complete
     /\ 0 <= res.percentage_complete.num
     /\ res.percentage_complete.num <= res.percentage_complete.den

RequiredPoolEmpty ==
  \/ goal_configs = <<>>
  \/ pc = "findStartGoalStates" /\ start_configs = <<>>

\* C10: a find function that ends with an empty required pool makes plan()
\* return NO_IK_SOLUTION, one that ends with every required pool non-empty
\* lets plan() go on to the planner, and NO_IK_SOLUTION is returned by no
\* other step.
C10_NoIKExactlyOnEmptyPool ==
  [][ /\ (pc \in {"findGoalStates", "findStartGoalStates"} /\ pc' # pc) =>
           IF RequiredPoolEmpty
           THEN pc' = "ready" /\ result' = "NO_IK_SOLUTION"
           ELSE pc' = "found" /\ result' = "NONE"
      /\ (pc' = "ready" /\ result' = "NO_IK_SOLUTION" /\ vars' # vars) =>
           (pc \in {"findGoalStates", "findStartGoalStates"}
            /\ RequiredPoolEmpty) ]_vars

\* after the full budget of 30 iterations and 60 IK attempts, of which at
\* most two were accepted, plan() is about to run the planner
C10_Witness ==
  /\ pc = "found"
  /\ ~passed_start_config_
  /\ ev.ik = 60
  /\ Len(start_configs) = 1
  /\ Len(goal_configs) = 1

\* a request the planner is meant for: a positive commanded angle, and a
\* start joint configuration that is absent or of the group's size
ValidRequest(r, group) ==
  /\ r.theta > 0
  /\ r.start_joint_state.size \in {0, getVariableCount(group)}

\* the completion c is a number, and the progress it stands for is within
\* the tolerance (one hundredth) of the commanded angle theta
WithinTolerance(c, theta) ==
  /\ "num" \in DOMAIN c
  /\ Abs(c.den - c.num) * theta <= c.den

\* C11 (as claimed): every call with a valid request on a group of bounded
\* revolute / prismatic and planar joints returns SUCCESS with a valid
\* trajectory and a completion within tolerance of 1, whichever IK attempts
\* failed. (Every goal is reachable here: each setFromIK call can return a
\* configuration and solve() can return a path that ends at the goal.)
C11_ReachableGoalSucceeds ==
  (/\ Returned
   /\ ~HasUnboundedJoint(joint_model_group_)
   /\ ~HasOtherJoint(joint_model_group_)
   /\ ValidRequest(req, joint_model_group_))
  => /\ result = "SUCCESS"
     /\ res.trajectory_is_valid
     /\ WithinTolerance(res.percentage_complete, req.theta)

InFindGoalStates ==
  \/ pc = "findGoalStates"
  \/ pc = "found" /\ passed_start_config_

\* C12: findGoalStates makes one IK attempt per iteration and at most
\* 2 x num_goal of them, never holds more than num_goal goals and makes no
\* attempt once it holds num_goal, keeps the start pool at the one given
\* configuration, always leaves its loop, and returns false exactly when it
\* leaves the loop with no goal.
C12_FindGoalStatesBounded ==
  /\ [](InFindGoalStates =>
          /\ i <= 2 * num_goal
          /\ ev.ik = i
          /\ Len(goal_configs) <= num_goal
          /\ start_configs = <<req.start_joint_state.q>>
          /\ req.start_joint_state.size
               = getVariableCount(joint_model_group_))
  /\ [][pc = "findGoalStates" =>
          /\ (Len(goal_configs) >= num_goal \/ i >= 2 * num_goal)
               => pc' # "findGoalStates"
          /\ pc' # "findGoalStates" =>
               /\ Len(goal_configs) = num_goal \/ i = 2 * num_goal
               /\ IF goal_configs = <<>>
                  THEN pc' = "ready" /\ result' = "NO_IK_SOLUTION"
                  ELSE /\ pc' = "found"
                       /\ goal_configs' = goal_configs
                       /\ start_configs' = start_configs]_vars
  /\ (pc = "findGoalStates" ~> pc # "findGoalStates")

\* findGoalStates returned true before its budget of four attempts was
\* used up, with the two goals asked for
C12_Witness ==
  /\ pc = "found"
  /\ passed_start_config_
  /\ num_goal = 2
  /\ Len(goal_configs) = 2
  /\ i = 3
  /\ start_configs = <<1>>

InFindStartGoalStates ==
  \/ pc = "findStartGoalStates"
  \/ pc = "found" /\ ~passed_start_config_

\* C13: findStartGoalStates runs at most 2 x (num_start + num_goal)
\* iterations, never holds more than num_start starts or num_goal goals,
\* makes in an iteration a start attempt exactly when the start pool is
\* below num_start and a goal attempt exactly when the goal pool is below
\* num_goal, makes no iteration once both quotas are met, always leaves its
\* loop, and returns true exactly when both pools are non-empty.
C13_FindStartGoalStatesBounded ==
  /\ [](InFindStartGoalStates =>
          /\ i <= 2 * (num_start + num_goal)
          /\ ev.reseed = i
          /\ ev.ik <= 2 * i
          /\ Len(start_configs) <= num_start
          /\ Len(goal_configs) <= num_goal)
  /\ [][pc = "findStartGoalStates" =>
          /\ ((Len(start_configs) >= num_start
               /\ Len(goal_configs) >= num_goal)
              \/ i >= 2 * (num_start + num_goal))
               => pc' # "findStartGoalStates"
          /\ pc' = "findStartGoalStates" =>
               /\ i' = i + 1
               /\ ev'.ik = ev.ik
                    + (IF Len(start_configs) < num_start THEN 1 ELSE 0)
                    + (IF Len(goal_configs) < num_goal THEN 1 ELSE 0)
               /\ Len(start_configs) >= num_start
                    => start_configs' = start_configs
               /\ Len(goal_configs) >= num_goal
                    => goal_configs' = goal_configs
          /\ pc' # "findStartGoalStates" =>
               IF start_configs # <<>> /\ goal_configs # <<>>
               THEN /\ pc' = "found"
                    /\ goal_configs' = goal_configs
                    /\ start_configs' = start_configs
               ELSE pc' = "ready" /\ result' = "NO_IK_SOLUTION"]_vars
  /\ [][pc = "findStates" /\ ~passed_start_config_ =>
          \/ pc' = "findStartGoalStates"
               /\ num_start' >= 1 /\ num_goal' >= 1
          \/ pc' = "ready" /\ result' = "NO_IK_SOLUTION"
               /\ start_configs' = <<>> /\ goal_configs' = <<>>]_vars
  /\ (pc = "findStartGoalStates" ~> pc # "findStartGoalStates")

\* findStartGoalStates returned true before its budget of six iterations
\* was used up, with the one start and the two goals asked for; the start
\* quota was met first, so later iterations tried the goal pose only
C13_Witness ==
  /\ pc = "found"
  /\ ~passed_start_config_
  /\ num_start = 1
  /\ num_goal = 2
  /\ Len(start_configs) = 1
  /\ Len(goal_configs) = 2
  /\ i = 4
  /\ ev.ik = 5

AllValid(states) == \A k \in 1..Len(states) : states[k].valid

\* C14: when the path has at least two states and all of them pass the
\* validity check, the response holds the joint names, one waypoint per
\* state in path order, the completion theta_last / theta_max (the quotient
\* 0/0 when theta_max is 0) and the path length, and it is valid exactly
\* when theta_last is within 0.01 of theta_max; when some state fails the
\* check the response is not valid.
C14_FullWalkChecksFinalProgress ==
  pc = "extracted" =>
     /\ (Len(solution.states) >= 2 /\ AllValid(solution.states)) =>
          LET last == solution.states[Len(solution.states)].theta
          IN /\ res.joint_names = getVariableNames(joint_model_group_)
             /\ res.points = [j \in 1..Len(solution.states) |->
                                solution.states[j].q]
             /\ IF req.theta > 0
                THEN /\ "num" \in DOMAIN res.percentage_complete
                     /\ res.percentage_complete.num * req.theta
                          = last * res.percentage_complete.den
                ELSE "nan" \in DOMAIN res.percentage_complete
             /\ res.trajectory_is_valid <=> (Abs(req.theta - last) <= 1)
             /\ res.path_length = solution.length
     /\ ~AllValid(solution.states) => ~res.trajectory_is_valid

\* a path of three valid states that ends 0.01 short of the commanded 0.02:
\* three waypoints, a valid trajectory, and a completion of one half
C14_Witness ==
  /\ pc = "extracted"
  /\ req.theta = 2
  /\ Len(solution.states) = 3
  /\ AllValid(solution.states)
  /\ solution.states[3].theta = 1
  /\ res.points = <<0, 2, 1>>
  /\ res.trajectory_is_valid
  /\ res.percentage_complete = [num |-> 1, den |-> 2]

\* C15: when plan() is about to call solve(), the start states are the
\* entries of the start pool, one each and in order, at theta = 0, the goal
\* states are the entries of the goal pool, one each and in order, at
\* theta = req.theta, and there is at least one of each; solve() is called
\* from nowhere else.
C15_PlannerGetsPoolsAtEndsOfScrew ==
  /\ [](pc = "found" =>
          /\ Len(startStates) = Len(start_configs)
          /\ Len(goalStates) = Len(goal_configs)
          /\ Len(startStates) >= 1
          /\ Len(goalStates) >= 1
          /\ \A k \in 1..Len(startStates) :
                /\ startStates[k].theta = 0
                /\ startStates[k].q = start_configs[k]
          /\ \A k \in 1..Len(goalStates) :
                /\ goalStates[k].theta = req.theta
                /\ goalStates[k].q = goal_configs[k])
  /\ [][ev'.solve # ev.solve =>
          (pc = "found" /\ ev'.solve = ev.solve + 1) \/ ev'.solve = 0]_vars

\* two start states and two goal states at the far end of a screw of 0.02
C15_Witness ==
  /\ pc = "found"
  /\ req.theta = 2
  /\ Len(startStates) = 2
  /\ Len(goalStates) = 2
  /\ startStates[2] = [theta |-> 0, q |-> 0]
  /\ goalStates[1] = [theta |-> 2, q |-> 0]

\* C16: inside a call that is past its setup every per-call member holds
\* what this call's request makes it (state space, SimpleSetup, goal pose,
\* mode flag, a robot state of this call), and the step that enters a call
\* picks INITIALIZATION_FAIL, start-given mode or start-and-goal mode from
\* the joint group and the new request alone, with fresh pools and a fresh
\* count of what the call has done.
C16_CallsShareNoState ==
  /\ [](pc \in {"findGoalStates", "findStartGoalStates", "found"} =>
          LET setup == setupStateSpace(req, joint_model_group_)
              params == setSpaceParameters(req, setup.space)
              space == [params.space EXCEPT !.sampler = TRUE,
                                            !.locked = TRUE]
          IN /\ state_space_ = space
             /\ ss_ = setSimpleSetup(space).ss
             /\ goal_pose_ = req.theta
             /\ passed_start_config_ =
                  (req.start_joint_state.size
                     = getVariableCount(joint_model_group_))
             /\ kinematic_state_ # "null"
             /\ passed_start_config_
                  => start_configs = <<req.start_joint_state.q>>)
  /\ [][(pc = "ready" /\ vars' # vars) =>
          /\ joint_model_group_' = joint_model_group_
          /\ kinematic_state_' # "null"
          /\ IF HasUnboundedJoint(joint_model_group_)
             THEN pc' = "ready" /\ result' = "INITIALIZATION_FAIL"
             ELSE /\ result' = "NONE"
                  /\ pc' = (IF req'.start_joint_state.size
                                 = getVariableCount(joint_model_group_)
                            THEN "findGoalStates"
                            ELSE "findStartGoalStates")
                  /\ goal_configs' = <<>>
                  /\ i' = 0
                  /\ ev'.ik = 0 /\ ev'.solve = 0 /\ ev'.solved = "NONE"]_vars

\* a call without a start joint configuration begins its candidate search
\* on the same planner and response object that an earlier call, which
\* returned a complete path of length 1, has used
C16_Witness ==
  /\ pc = "findStartGoalStates"
  /\ i = 0
  /\ ~passed_start_config_
  /\ req.start_joint_state.size = 0
  /\ res.path_length = 1

\* C17 (as claimed): after any sequence of constructions and plan() calls,
\* while a planner is inside plan() the class-level model of each of the
\* three helper types is the model that planner was constructed with.
C17_HelperModelIsThePlannersModel ==
  pc # "ready" =>
     /\ kinematic_model.ScrewSampler = kinematic_model_
     /\ kinematic_model.ScrewValidityChecker = kinematic_model_
     /\ kinematic_model.ScrewValidSampler = kinematic_model_

\* C18: a call returns INITIALIZATION_FAIL exactly when the group has a
\* revolute or prismatic joint without position bounds, and then it failed
\* in setupStateSpace (no state space, nothing installed); on every other
\* group the step that enters the call ends in a find function with the
\* parameters set, the sampler and the validity checker installed, and the
\* call makes at least one IK attempt before it returns.
C18_InitFailOnlyFromUnboundedJoint ==
  /\ [](Returned =>
          /\ result = "INITIALIZATION_FAIL"
               <=> HasUnboundedJoint(joint_model_group_)
          /\ result = "INITIALIZATION_FAIL" =>
               /\ state_space_ = NoSpace
               /\ ev = EvZero
          /\ result # "INITIALIZATION_FAIL" =>
               /\ ev.ik >= 1
               /\ ev.sampler = 1
               /\ ev.checker = 1
               /\ state_space_.params # {}
               /\ state_space_.locked)
  /\ [][(pc = "ready" /\ vars' # vars
           /\ ~HasUnboundedJoint(joint_model_group_)) =>
          /\ pc' \in {"findGoalStates", "findStartGoalStates"}
          /\ i' = 0
          /\ i' < 2 * num_goal'
          /\ Len(goal_configs') < num_goal']_vars

\* a call with a start joint configuration went through the setup and used
\* up the 20 IK attempts of findGoalStates without finding a goal
C18_Witness ==
  /\ Returned
  /\ ~HasUnboundedJoint(joint_model_group_)
  /\ passed_start_config_
  /\ result = "NO_IK_SOLUTION"
  /\ ev.ik = 20
  /\ ev.checker = 1

\* a response populateResponse left when it stopped at an invalid state: the
\* joint names are set and the trajectory is invalid although it has no
\* waypoint or its completion stands for a progress within the tolerance of
\* theta, which a walk to the end would have marked valid
StoppedEarly(rs, theta) ==
  /\ rs.joint_names # <<>>
  /\ ~rs.trajectory_is_valid
  /\ \/ rs.points = <<>>
     \/ theta = 0
     \/ WithinTolerance(rs.percentage_complete, theta)

\* C19: the step that enters plan() keeps the response's path_length, and so
\* does every return with a failure code, every SUCCESS that left the
\* response without joint names (a path of fewer than two states) and every
\* SUCCESS whose walk stopped at an invalid state; path_length changes only
\* in a SUCCESS that emitted the joint names and at least two waypoints.
C19_PathLengthSurvivesReset ==
  [][/\ pc = "ready" => res'.path_length = res.path_length
     /\ (pc' = "ready"
         /\ result' \in {"INITIALIZATION_FAIL", "NO_IK_SOLUTION",
                         "PLANNING_FAIL"})
          => res'.path_length = res.path_length
     /\ (pc = "found" /\ result' = "SUCCESS"
         /\ (res'.joint_names = <<>> \/ StoppedEarly(res', req.theta)))
          => res'.path_length = res.path_length
     /\ res'.path_length # res.path_length =>
          /\ pc = "found"
          /\ result' = "SUCCESS"
          /\ res'.joint_names # <<>>
          /\ Len(res'.points) >= 2]_vars

\* a SUCCESS whose walk stopped at the second state, on a response that
\* still carries the path length 1 of an earlier call
C19_Witness ==
  /\ Returned
  /\ result = "SUCCESS"
  /\ StoppedEarly(res, req.theta)
  /\ Len(res.points) = 1
  /\ res.path_length = 1

====
